---- MODULE Spec2Model ----
(***************************************************************************)
(* Session pairing and signal relay of the QR code camera signaling        *)
(* server (src/unnamed/part_000).  One action per socket.io handler and    *)
(* one for the setTimeout callback armed by create-session.  Handlers run  *)
(* to completion on the node event loop, so each is one atomic step.       *)
(***************************************************************************)
EXTENDS Integers, Sequences, FiniteSets, TLC

\* Bound of the model, in objects the handlers allocate: create-session
\* allocates two (the session object and its Timeout), a buffered signal one.
MaxLoad == 5

\* socket.id values of the connections that may be opened, and the opaque
\* signal payloads they send.
Handles == {"A", "B", "C"}
Signals == {"offer", "candidate"}

\* JavaScript null (session.mobile before a join; a falsy targetId).
null == "null"
\* Argument of a message that carries none.
NoArg == "none"
\* A sessionId string that uuidv4 never issued.
UnknownId == 0

VARIABLES
  sessions,   \* the Map sessionId -> session object
  timers,     \* timers[id]: state of the setTimeout armed when session id was created
  conn,       \* conn[h]: "new", "open" or "closed" for the socket with id h
  lastEvent,  \* the event handled by the last step
  emitted,    \* the messages the last step emitted, in order
  before,     \* the Map as it was when the last step began
  timersBefore \* the timers as they were when the last step began

vars == <<sessions, timers, conn, lastEvent, emitted, before, timersBefore>>

\* An outbound message: io.to(to).emit(event, arg) / socket.emit(event, arg).
\* A message whose `to` is null is addressed to no socket and reaches nobody.
Msg(to, event, arg) == [to |-> to, event |-> event, arg |-> arg]

Event(type, socket, sessionId, signal) ==
  [type |-> type, socket |-> socket, sessionId |-> sessionId, signal |-> signal]

\* Identifiers already issued; they are numbered in the order of issue, so the
\* insertion order of the Map is the ascending order of the identifiers.
Issued == 1..Len(timers)

\* sessions.set(sessionId, session)
MapSet(map, key, value) ==
  [k \in DOMAIN map \cup {key} |-> IF k = key THEN value ELSE map[k]]

\* sessions.delete(sessionId)
MapDelete(map, key) == [k \in DOMAIN map \ {key} |-> map[k]]

\* The session object built by create-session.
NewSession(socket, sessionId) ==
  [desktop |-> socket, mobile |-> null, ready |-> FALSE,
   pendingSignals |-> <<>>, timeout |-> sessionId]

Init ==
  /\ sessions = <<>>
  /\ timers = <<>>
  /\ conn = [h \in Handles |-> "new"]
  /\ lastEvent = Event("init", null, UnknownId, NoArg)
  /\ emitted = <<>>
  /\ before = <<>>
  /\ timersBefore = <<>>

\* Every step records the event it handles and the registry it started from.
Handling(event) ==
  /\ lastEvent' = event
  /\ before' = sessions
  /\ timersBefore' = timers

RECURSIVE Buffered(_)
\* Number of signals held in the pendingSignals of the sessions ids.
Buffered(ids) ==
  IF ids = {} THEN 0
  ELSE LET id == CHOOSE i \in ids : TRUE IN
         Len(sessions[id].pendingSignals) + Buffered(ids \ {id})

\* The most identifiers a run can issue within MaxLoad.
MaxIssued == MaxLoad \div 2

\* Objects allocated: a session object and a Timeout for every identifier
\* issued, and one entry for every signal now buffered.
Load == 2 * Len(timers) + Buffered(DOMAIN sessions)

\* io.on('connection'): a new socket with a fresh id.
Connection(socket) ==
  /\ conn[socket] = "new"
  /\ conn' = [conn EXCEPT ![socket] = "open"]
  /\ Handling(Event("connection", socket, UnknownId, NoArg))
  /\ emitted' = <<>>
  /\ UNCHANGED <<sessions, timers>>

\* socket.on('create-session')
CreateSession(socket) ==
  /\ conn[socket] = "open"
  /\ Load + 2 <= MaxLoad
  /\ LET sessionId == Len(timers) + 1 IN
       /\ sessions' = MapSet(sessions, sessionId, NewSession(socket, sessionId))
       /\ timers' = Append(timers, "armed")
       /\ Handling(Event("create-session", socket, sessionId, NoArg))
       /\ emitted' = <<Msg(socket, "session-created", sessionId)>>
  /\ UNCHANGED conn

\* A join that forgets clearTimeout.
ClearTimeoutOmitted(timeout) == timers

\* clearTimeout(session.timeout): an armed timer is cancelled and never fires;
\* on a timer that fired or was cancelled it does nothing.
ClearTimeout(timeout) ==
  [timers EXCEPT ![timeout] = IF @ = "armed" THEN "cancelled" ELSE @]

\* A flush that walks the buffer from its end.
PendingEmitsReversed(pendingSignals) ==
  [i \in 1..Len(pendingSignals) |->
     Msg(pendingSignals[Len(pendingSignals) + 1 - i].targetId, "signal",
         pendingSignals[Len(pendingSignals) + 1 - i].data)]

\* session.pendingSignals.forEach(signal => io.to(signal.targetId).emit(...))
PendingEmits(pendingSignals) ==
  [i \in 1..Len(pendingSignals) |->
     Msg(pendingSignals[i].targetId, "signal", pendingSignals[i].data)]

\* A flush that does not reset the buffer.
FlushedBufferKept(pendingSignals) == pendingSignals

\* session.pendingSignals = [] after the flush.
FlushedBuffer(pendingSignals) == <<>>

\* An else branch that does not answer the requester.
SessionNotFoundSilent(socket) ==
  /\ emitted' = <<>>
  /\ UNCHANGED <<sessions, timers>>

\* The else branch of join-session: the identifier is not in the Map.
SessionNotFound(socket) ==
  /\ emitted' = <<Msg(socket, "session-not-found", NoArg)>>
  /\ UNCHANGED <<sessions, timers>>

\* A join that keeps the mobile handle of an earlier join (first join wins).
JoinedSessionFirstWins(session, socket) ==
  [session EXCEPT !.mobile = IF @ = null THEN socket ELSE @, !.ready = TRUE,
                  !.pendingSignals = FlushedBuffer(session.pendingSignals)]

\* A join that sets the mobile handle and forgets session.ready = true.
JoinedSessionNotReady(session, socket) ==
  [session EXCEPT !.mobile = socket,
                  !.pendingSignals = FlushedBuffer(session.pendingSignals)]

\* The session object after a join by socket.
JoinedSession(session, socket) ==
  [session EXCEPT !.mobile = socket, !.ready = TRUE,
                  !.pendingSignals = FlushedBuffer(session.pendingSignals)]

\* socket.on('join-session')
JoinSession(socket, sessionId) ==
  /\ conn[socket] = "open"
  /\ Handling(Event("join-session", socket, sessionId, NoArg))
  /\ IF sessionId \in DOMAIN sessions
       THEN LET session == sessions[sessionId] IN
              /\ timers' = ClearTimeout(session.timeout)
              /\ sessions' = [sessions EXCEPT ![sessionId] = JoinedSession(session, socket)]
              /\ emitted' = <<Msg(session.desktop, "mobile-connected", NoArg),
                              Msg(socket, "connection-successful", NoArg)>>
                            \o PendingEmits(session.pendingSignals)
       ELSE SessionNotFound(socket)
  /\ UNCHANGED conn

\* A target with the two branches of the conditional exchanged.
TargetIdSwapped(socket, session) ==
  IF socket = session.desktop THEN session.desktop ELSE session.mobile

\* A target that is only resolved for the two participants of the session.
TargetIdStrict(socket, session) ==
  IF socket = session.desktop THEN session.mobile
  ELSE IF socket = session.mobile THEN session.desktop ELSE null

\* const targetId = socket.id === session.desktop ? session.mobile : session.desktop
TargetId(socket, session) ==
  IF socket = session.desktop THEN session.mobile ELSE session.desktop

\* A buffer that takes the new entry at its front (unshift).
PushSignalAtFront(pendingSignals, entry) == <<entry>> \o pendingSignals

\* session.pendingSignals.push({ targetId, data: signal })
PushSignal(pendingSignals, entry) == Append(pendingSignals, entry)

\* socket.on('signal')
RelaySignal(socket, sessionId, signal) ==
  /\ conn[socket] = "open"
  /\ Handling(Event("signal", socket, sessionId, signal))
  /\ IF sessionId \in DOMAIN sessions
       THEN LET session == sessions[sessionId]
                targetId == TargetId(socket, session)
            IN IF ~session.ready
                 THEN /\ Load + 1 <= MaxLoad
                      /\ sessions' = [sessions EXCEPT ![sessionId].pendingSignals =
                                        PushSignal(@, [targetId |-> targetId, data |-> signal])]
                      /\ emitted' = <<>>
                 ELSE /\ emitted' = IF targetId # null
                                      THEN <<Msg(targetId, "signal", signal)>>
                                      ELSE <<>>
                      /\ UNCHANGED sessions
       ELSE /\ emitted' = <<>>
            /\ UNCHANGED sessions
  /\ UNCHANGED <<timers, conn>>

\* A scan whose condition matches every session.
ParticipatesAny(socket) == DOMAIN sessions

\* The sessions the scan of the disconnect handler matches.
Participates(socket) ==
  {id \in DOMAIN sessions :
     sessions[id].desktop = socket \/ sessions[id].mobile = socket}

\* The first match of the scan, in the Map's insertion order.
FirstMatch(socket) ==
  CHOOSE id \in Participates(socket) : \A other \in Participates(socket) : id <= other

\* socket.on('disconnect')
HandleDisconnect(socket) ==
  /\ conn[socket] = "open"
  /\ conn' = [conn EXCEPT ![socket] = "closed"]
  /\ Handling(Event("disconnect", socket, UnknownId, NoArg))
  /\ IF Participates(socket) # {}
       THEN LET sessionId == FirstMatch(socket)
                targetId == TargetId(socket, sessions[sessionId])
            IN /\ emitted' = IF targetId # null
                               THEN <<Msg(targetId, "peer-disconnected", NoArg)>>
                               ELSE <<>>
               /\ sessions' = MapDelete(sessions, sessionId)
       ELSE /\ emitted' = <<>>
            /\ UNCHANGED sessions
  /\ UNCHANGED timers

\* The timer of sessionId can expire: it is armed, and no timer armed earlier
\* is still pending (all timers run for the same SESSION_TIMEOUT, so they
\* expire in the order they were armed).
Expires(sessionId) ==
  /\ sessionId \in Issued
  /\ timers[sessionId] = "armed"
  /\ \A earlier \in 1..(sessionId - 1) : timers[earlier] # "armed"

\* A callback that runs although clearTimeout was called and that does not
\* look at session.mobile.
SessionTimeoutAfterClear(sessionId) ==
  /\ sessionId \in Issued
  /\ timers[sessionId] \in {"armed", "cancelled"}
  /\ timers' = [timers EXCEPT ![sessionId] = "fired"]
  /\ Handling(Event("timeout", null, sessionId, NoArg))
  /\ IF sessionId \in DOMAIN sessions
       THEN /\ emitted' = <<Msg(sessions[sessionId].desktop, "session-timeout", NoArg)>>
            /\ sessions' = MapDelete(sessions, sessionId)
       ELSE /\ emitted' = <<>>
            /\ UNCHANGED sessions
  /\ UNCHANGED conn

\* A callback that does not check sessions.has(sessionId) before it acts.
SessionTimeoutUnchecked(sessionId) ==
  /\ Expires(sessionId)
  /\ timers' = [timers EXCEPT ![sessionId] = "fired"]
  /\ Handling(Event("timeout", null, sessionId, NoArg))
  /\ emitted' = <<Msg(IF sessionId \in DOMAIN sessions
                        THEN sessions[sessionId].desktop ELSE null,
                      "session-timeout", NoArg)>>
  /\ sessions' = MapDelete(sessions, sessionId)
  /\ UNCHANGED conn

\* A callback that sends session-timeout and forgets sessions.delete.
SessionTimeoutKeepsSession(sessionId) ==
  /\ Expires(sessionId)
  /\ timers' = [timers EXCEPT ![sessionId] = "fired"]
  /\ Handling(Event("timeout", null, sessionId, NoArg))
  /\ emitted' = IF sessionId \in DOMAIN sessions /\ sessions[sessionId].mobile = null
                  THEN <<Msg(sessions[sessionId].desktop, "session-timeout", NoArg)>>
                  ELSE <<>>
  /\ UNCHANGED <<sessions, conn>>

\* A callback whose test on session.mobile is inverted.
SessionTimeoutInverted(sessionId) ==
  /\ Expires(sessionId)
  /\ timers' = [timers EXCEPT ![sessionId] = "fired"]
  /\ Handling(Event("timeout", null, sessionId, NoArg))
  /\ IF sessionId \in DOMAIN sessions /\ sessions[sessionId].mobile # null
       THEN /\ emitted' = <<Msg(sessions[sessionId].desktop, "session-timeout", NoArg)>>
            /\ sessions' = MapDelete(sessions, sessionId)
       ELSE /\ emitted' = <<>>
            /\ UNCHANGED sessions
  /\ UNCHANGED conn

\* The setTimeout callback of create-session, run when the timer of sessionId
\* expires: only an armed timer fires, and it fires once.
SessionTimeout(sessionId) ==
  /\ Expires(sessionId)
  /\ timers' = [timers EXCEPT ![sessionId] = "fired"]
  /\ Handling(Event("timeout", null, sessionId, NoArg))
  /\ IF sessionId \in DOMAIN sessions /\ sessions[sessionId].mobile = null
       THEN /\ emitted' = <<Msg(sessions[sessionId].desktop, "session-timeout", NoArg)>>
            /\ sessions' = MapDelete(sessions, sessionId)
       ELSE /\ emitted' = <<>>
            /\ UNCHANGED sessions
  /\ UNCHANGED conn

\* The sessionId strings a client can present: the identifiers issued so far
\* and one string that is no identifier.
ClientIds == Issued \cup {UnknownId}

Next ==
  \/ \E socket \in Handles : Connection(socket)
  \/ \E socket \in Handles : CreateSession(socket)
  \/ \E socket \in Handles, sessionId \in ClientIds : JoinSession(socket, sessionId)
  \/ \E socket \in Handles, sessionId \in ClientIds, signal \in Signals :
       RelaySignal(socket, sessionId, signal)
  \/ \E socket \in Handles : HandleDisconnect(socket)
  \/ \E sessionId \in 1..MaxLoad : SessionTimeout(sessionId)

Spec == Init /\ [][Next]_vars

\* Some timer expires: at most one can at a time, the one armed first.
TimerExpiry == \E sessionId \in 1..MaxIssued : SessionTimeout(sessionId)

\* The event loop runs the callback of a timer that expires: while a timer
\* is armed, the one whose turn has come fires unless a join cancels it.
FairSpec == Spec /\ WF_vars(TimerExpiry)

TypeOK ==
  /\ DOMAIN sessions \subseteq Issued
  /\ \A id \in DOMAIN sessions :
       /\ sessions[id].desktop \in Handles
       /\ sessions[id].mobile \in Handles \cup {null}
       /\ sessions[id].ready \in BOOLEAN
       /\ Len(sessions[id].pendingSignals) <= MaxLoad
  /\ \A id \in Issued : timers[id] \in {"armed", "cancelled", "fired"}
  /\ Load <= MaxLoad
  /\ conn \in [Handles -> {"new", "open", "closed"}]

(***************************************************************************)
(* The claims.  sid is the identifier the last event named, joined says    *)
(* that the last event was a join-session of a registered session.         *)
(***************************************************************************)
sid == lastEvent.sessionId

joined == lastEvent.type = "join-session" /\ sid \in DOMAIN before

\* The signal messages among the emitted ones, in order.
SignalsEmitted == SelectSeq(emitted, LAMBDA m : m.event = "signal")

\* C1: a signal buffered before the join is not delivered when it is sent,
\* and the join delivers every buffered signal to the other participant of
\* its sender: the joiner for a signal the desktop sent (buffered with
\* targetId null, the mobile not being known yet), the desktop otherwise.
C1_BufferedSignalsReachPeerAtJoin ==
  /\ (lastEvent.type = "signal" /\ sid \in DOMAIN before /\ ~before[sid].ready)
       => emitted = <<>>
  /\ (joined /\ lastEvent.socket # before[sid].desktop) =>
       \A i \in 1..Len(before[sid].pendingSignals) :
         LET entry == before[sid].pendingSignals[i]
             peer == IF entry.targetId = null THEN lastEvent.socket
                     ELSE before[sid].desktop
         IN \E k \in 3..Len(emitted) : emitted[k] = Msg(peer, "signal", entry.data)

\* C2: once a join has set the mobile handle of a session, no later event
\* changes it while the session is registered.
C2_MobileSetAtMostOnce ==
  \A id \in DOMAIN before \cap DOMAIN sessions :
    before[id].mobile # null => sessions[id].mobile = before[id].mobile

\* The sessions of the registry `map` that socket is desktop or mobile of.
SessionsOf(map, socket) ==
  {id \in DOMAIN map : map[id].desktop = socket \/ map[id].mobile = socket}

\* The other participant of session, seen from socket.
OtherOf(session, socket) ==
  IF session.desktop = socket THEN session.mobile ELSE session.desktop

\* C3: a disconnect of a handle removes every session the handle is desktop
\* or mobile of, and tells the other participant of each, when there is one,
\* with a peer-disconnected (exactly one when the handle had one session,
\* none when no other participant is set).
C3_DisconnectRemovesEverySession ==
  lastEvent.type = "disconnect" =>
    LET mine == SessionsOf(before, lastEvent.socket) IN
      /\ \A id \in mine : id \notin DOMAIN sessions
      /\ \A id \in mine :
           LET other == OtherOf(before[id], lastEvent.socket) IN
             /\ other # null =>
                  \E k \in 1..Len(emitted) :
                    emitted[k] = Msg(other, "peer-disconnected", NoArg)
             /\ (other = null /\ Cardinality(mine) = 1) => emitted = <<>>
             /\ Cardinality(mine) = 1 => Len(emitted) <= 1

\* C4: after a disconnect has deleted a session, no armed timer remains for
\* the deleted session.
C4_DisconnectCancelsTimer ==
  lastEvent.type = "disconnect" =>
    \A id \in DOMAIN before \ DOMAIN sessions : timers[id] # "armed"

\* C5: a timer event never deletes a session that has been joined, and a
\* timer event of a joined session sends no session-timeout.
C5_TimerSparesJoinedSession ==
  lastEvent.type = "timeout" =>
    \A id \in DOMAIN before :
      before[id].ready =>
        /\ id \in DOMAIN sessions
        /\ sid = id => emitted = <<>>

C5_Witness ==
  /\ lastEvent.type = "timeout"
  /\ \E id \in DOMAIN before : before[id].ready /\ id \in DOMAIN sessions

\* C6: a timer event of a session that is ready or no longer registered
\* changes no session and emits no message.
C6_StaleTimerIsNoOp ==
  (lastEvent.type = "timeout" /\ (sid \notin DOMAIN before \/ before[sid].ready))
    => (sessions = before /\ emitted = <<>>)

C6_Witness ==
  /\ lastEvent.type = "timeout"
  /\ sid \notin DOMAIN before
  /\ sessions = before
  /\ timersBefore[sid] = "armed"

\* C7: every registered session is either not ready with its timer armed,
\* or ready with its timer cancelled.
C7_TimerArmedXorReady ==
  \A id \in DOMAIN sessions :
    \/ ~sessions[id].ready /\ timers[id] = "armed"
    \/ sessions[id].ready /\ timers[id] = "cancelled"

C7_Witness ==
  \E id, other \in DOMAIN sessions :
    /\ sessions[id].ready /\ timers[id] = "cancelled"
    /\ ~sessions[other].ready /\ timers[other] = "armed"

\* C8: a ready session has an empty buffer; a join leaves the buffer empty
\* and its flush emits as many signals as the buffer held, so a repeated
\* join emits none again.
C8_BufferDrainedOnce ==
  /\ \A id \in DOMAIN sessions :
       sessions[id].ready => sessions[id].pendingSignals = <<>>
  /\ joined =>
       /\ sessions[sid].pendingSignals = <<>>
       /\ Len(SignalsEmitted) = Len(before[sid].pendingSignals)
       /\ before[sid].ready => SignalsEmitted = <<>>

C8_Witness ==
  /\ joined
  /\ Len(before[sid].pendingSignals) = 2
  /\ sessions[sid].pendingSignals = <<>>

\* C9: a join of a registered session emits mobile-connected to the desktop,
\* then connection-successful to the requester, then one signal per buffered
\* entry in the order of the buffer, and nothing else.
C9_JoinEmissionOrder ==
  joined =>
    LET pending == before[sid].pendingSignals IN
      /\ Len(emitted) = 2 + Len(pending)
      /\ emitted[1] = Msg(before[sid].desktop, "mobile-connected", NoArg)
      /\ emitted[2] = Msg(lastEvent.socket, "connection-successful", NoArg)
      /\ \A i \in 1..Len(pending) :
           /\ emitted[2 + i].event = "signal"
           /\ emitted[2 + i].arg = pending[i].data
           /\ emitted[2 + i].to = pending[i].targetId

C9_Witness ==
  /\ joined
  /\ Len(before[sid].pendingSignals) = 2
  /\ before[sid].pendingSignals[1].data # before[sid].pendingSignals[2].data
  /\ Len(emitted) = 4

\* C10: a join with an identifier that is not registered answers the
\* requester with one session-not-found, emits nothing else, and changes
\* neither the sessions nor the timers.
C10_UnknownJoinChangesNothing ==
  (lastEvent.type = "join-session" /\ sid \notin DOMAIN before) =>
    /\ emitted = <<Msg(lastEvent.socket, "session-not-found", NoArg)>>
    /\ sessions = before
    /\ timers = timersBefore

C10_Witness ==
  /\ lastEvent.type = "join-session"
  /\ sid \in Issued
  /\ sid \notin DOMAIN before
  /\ timersBefore[sid] = "armed"
  /\ DOMAIN before # {}
  /\ Len(emitted) = 1

\* C11: the timer of a registered, never joined session sends exactly one
\* session-timeout to the desktop of the session and removes that session
\* only; a join that names an identifier whose timer has fired is answered
\* with session-not-found.
C11_TimeoutRemovesUnjoinedSession ==
  /\ (lastEvent.type = "timeout" /\ sid \in DOMAIN before /\ before[sid].mobile = null)
       => /\ emitted = <<Msg(before[sid].desktop, "session-timeout", NoArg)>>
          /\ sessions = MapDelete(before, sid)
  /\ (lastEvent.type = "join-session" /\ sid \in Issued /\ timersBefore[sid] = "fired")
       => emitted = <<Msg(lastEvent.socket, "session-not-found", NoArg)>>

C11_Witness ==
  /\ lastEvent.type = "timeout"
  /\ sid \in DOMAIN before
  /\ before[sid].mobile = null
  /\ sid \notin DOMAIN sessions
  /\ Len(emitted) = 1

\* C12: a session leaves the registry only by its own timer firing while it
\* has never been joined, or by a disconnect of its desktop or its mobile.
C12_OnlyTimeoutOrDisconnectRemoves ==
  \A id \in DOMAIN before \ DOMAIN sessions :
    \/ lastEvent.type = "timeout" /\ sid = id /\ before[id].mobile = null
    \/ /\ lastEvent.type = "disconnect"
       /\ lastEvent.socket \in {before[id].desktop, before[id].mobile}

C12_Witness ==
  /\ lastEvent.type = "disconnect"
  /\ SessionsOf(before, lastEvent.socket) = {}
  /\ DOMAIN before # {}
  /\ sessions = before

\* C13: a signal of the desktop or the mobile of a ready session sends
\* exactly one signal with the payload to the other one of the two and
\* changes no session and no timer.
C13_ReadyRelayToOtherParticipant ==
  (/\ lastEvent.type = "signal"
   /\ sid \in DOMAIN before
   /\ before[sid].ready
   /\ lastEvent.socket \in {before[sid].desktop, before[sid].mobile})
    => /\ Len(emitted) = 1
       /\ emitted[1].event = "signal"
       /\ emitted[1].arg = lastEvent.signal
       /\ lastEvent.socket = before[sid].desktop => emitted[1].to = before[sid].mobile
       /\ lastEvent.socket = before[sid].mobile => emitted[1].to = before[sid].desktop
       /\ sessions = before
       /\ timers = timersBefore

C13_Witness ==
  /\ lastEvent.type = "signal"
  /\ sid \in DOMAIN before
  /\ before[sid].ready
  /\ lastEvent.socket = before[sid].mobile
  /\ before[sid].mobile # before[sid].desktop
  /\ emitted = <<Msg(before[sid].desktop, "signal", lastEvent.signal)>>

\* C14: a signal for a session that is not ready or not registered emits no
\* message; for a registered session that is not ready it appends one entry
\* (target, payload) at the end of that session's buffer and changes nothing
\* else; for an identifier that is not registered it changes nothing.
C14_EarlySignalOnlyBuffers ==
  lastEvent.type = "signal" =>
    /\ (sid \notin DOMAIN before) =>
         (emitted = <<>> /\ sessions = before /\ timers = timersBefore)
    /\ (sid \in DOMAIN before /\ ~before[sid].ready) =>
         /\ emitted = <<>>
         /\ timers = timersBefore
         /\ DOMAIN sessions = DOMAIN before
         /\ \A id \in DOMAIN before \ {sid} : sessions[id] = before[id]
         /\ sessions[sid] =
              [before[sid] EXCEPT !.pendingSignals =
                 before[sid].pendingSignals \o
                   <<[targetId |-> OtherOf(before[sid], lastEvent.socket),
                      data |-> lastEvent.signal]>>]

C14_Witness ==
  /\ lastEvent.type = "signal"
  /\ sid \in DOMAIN before
  /\ ~before[sid].ready
  /\ Len(sessions[sid].pendingSignals) = 2
  /\ sessions[sid].pendingSignals[1] # sessions[sid].pendingSignals[2]

\* C15: every handle is desktop or mobile of at most one registered session,
\* and after a disconnect of a handle no registered session has it as
\* desktop or mobile.
C15_HandleInAtMostOneSession ==
  /\ \A h \in Handles : Cardinality(SessionsOf(sessions, h)) <= 1
  /\ lastEvent.type = "disconnect" => SessionsOf(sessions, lastEvent.socket) = {}

\* C16: a join of a session that is already ready overwrites the mobile
\* handle with the requester and keeps ready; it emits mobile-connected to
\* the desktop and connection-successful to the requester and nothing else,
\* so the former mobile gets no message and no signal is delivered again.
C16_SecondJoinOverwritesMobile ==
  (joined /\ before[sid].ready) =>
    /\ sessions[sid].mobile = lastEvent.socket
    /\ sessions[sid].ready
    /\ emitted = <<Msg(before[sid].desktop, "mobile-connected", NoArg),
                   Msg(lastEvent.socket, "connection-successful", NoArg)>>
    /\ before[sid].mobile \notin {before[sid].desktop, lastEvent.socket} =>
         \A k \in 1..Len(emitted) : emitted[k].to # before[sid].mobile

C16_Witness ==
  /\ joined
  /\ before[sid].ready
  /\ before[sid].mobile \notin {before[sid].desktop, lastEvent.socket}
  /\ lastEvent.socket # before[sid].desktop
  /\ sessions[sid].mobile = lastEvent.socket

\* C17: a registered session is ready exactly when its mobile handle is
\* set, and a signal for a ready session always finds a target.
C17_ReadyIffMobileSet ==
  /\ \A id \in DOMAIN sessions : sessions[id].ready <=> sessions[id].mobile # null
  /\ (lastEvent.type = "signal" /\ sid \in DOMAIN before /\ before[sid].ready)
       => (Len(emitted) = 1 /\ emitted[1].to # null)

C17_Witness ==
  /\ lastEvent.type = "signal"
  /\ sid \in DOMAIN before
  /\ before[sid].ready
  /\ \E id \in DOMAIN sessions : ~sessions[id].ready /\ sessions[id].mobile = null

\* C18: with the timers firing when they expire, no session stays registered
\* and not joined forever: time and again every identifier is either not
\* registered or joined.
C18_UnjoinedSessionEventuallyGone ==
  \A id \in 1..MaxIssued :
    []<>(id \notin DOMAIN sessions \/ sessions[id].ready)

C18_Witness ==
  /\ lastEvent.type = "timeout"
  /\ sid \in DOMAIN before
  /\ ~before[sid].ready
  /\ sid \notin DOMAIN sessions
  /\ conn[before[sid].desktop] = "open"

\* C19: no signal and no peer-disconnected emitted by a signal event or a
\* disconnect event is addressed to the handle the event came from.
C19_NoMessageBackToOriginator ==
  lastEvent.type \in {"signal", "disconnect"} =>
    \A k \in 1..Len(emitted) :
      emitted[k].event \in {"signal", "peer-disconnected"}
        => emitted[k].to # lastEvent.socket

\* C20: a signal from a handle that is neither desktop nor mobile of a
\* registered session is delivered to the desktop when the session is
\* ready, and buffered with the desktop as target when it is not.
C20_OutsiderSignalGoesToDesktop ==
  (/\ lastEvent.type = "signal"
   /\ sid \in DOMAIN before
   /\ lastEvent.socket \notin {before[sid].desktop, before[sid].mobile})
    => IF before[sid].ready
         THEN /\ emitted = <<Msg(before[sid].desktop, "signal", lastEvent.signal)>>
              /\ sessions = before
         ELSE /\ emitted = <<>>
              /\ sessions[sid].pendingSignals =
                   before[sid].pendingSignals \o
                     <<[targetId |-> before[sid].desktop, data |-> lastEvent.signal]>>

C20_Witness ==
  /\ lastEvent.type = "signal"
  /\ sid \in DOMAIN before
  /\ before[sid].ready
  /\ lastEvent.socket \notin {before[sid].desktop, before[sid].mobile}
  /\ Len(emitted) = 1
====
